---- MODULE Spec2Model ----
(***************************************************************************)
(* Loan-eligibility decision engine (src/loan_prediction_system.py):       *)
(* the labeling policy of generate_loan_data, the LabelEncoder state of a  *)
(* LoanEligibilityModel, train / predict / save_model / load_model, and    *)
(* the post-prediction rule override.                                      *)
(*                                                                         *)
(* Numbers.  Incomes are integers; the score of the labeling policy is     *)
(* kept as an exact fraction (ScoreNum / ScoreDen), so "score > 1" is an   *)
(* exact comparison.  Label indices are the 0-based positions that         *)
(* sklearn's LabelEncoder assigns in its sorted classes_ array.            *)
(***************************************************************************)
EXTENDS Integers, Sequences, FiniteSets, TLC

VARIABLES
    model,           \* self.model: the RandomForestClassifier
    scaler,          \* self.scaler: the StandardScaler
    label_encoders,  \* self.label_encoders: column -> LabelEncoder
    target_encoder,  \* self.target_encoder: LabelEncoder of the eligibility labels
    artifact,        \* content of the joblib file, or NoFile
    runs,            \* number of train calls made so far
    df,              \* the frame given to the last predict call
    passed,          \* the array model.predict returned, as it was handed to _apply_custom_rules
    predictions,     \* the same array object after _apply_custom_rules
    result,          \* what the last predict call returned or raised
    data,            \* the frame returned by the last generate_loan_data call
    branches,        \* per row of data, the return statement determine_eligibility left by
    rng,             \* state of numpy's process-wide generator (np.random)
    seeded,          \* the state np.random.seed(42) puts that generator in
    previous,        \* the frame the generate_loan_data call before the last returned
    entered,         \* the generator state the last generate_loan_data call was entered with
    op,              \* the method the pending call entered, "none" between calls
    X,               \* df_processed of the pending call
    caller_df,       \* the caller's frame as the pending call left it
    source,          \* the bundle load_model built the instance from, if it did
    stage,           \* where the training entry point stands
    gui,             \* the application: its window, message box, form values and result
    callers,         \* the predict calls in progress on a shared instance, per caller
    draws            \* per row of data, the values drawn before they were clipped

vars == <<model, scaler, label_encoders, target_encoder, artifact, runs,
          df, passed, predictions, result, data, branches, rng, seeded,
          previous, entered, op, X, caller_df, source, stage, gui, callers, draws>>

-----------------------------------------------------------------------------
(* Bounds of the model *)

MaxRows == 2        \* rows of a multi-row frame given to predict
MaxRuns == 2        \* train calls
MaxSamples == 2     \* num_samples of generate_loan_data
MaxDrift == 3       \* draws from np.random since it was last in the seeded state
MaxCallers == 2     \* threads calling predict on one shared instance

-----------------------------------------------------------------------------
(* Strings and their order.  numpy sorts str arrays by code point. *)

Codes ==
    ("Eligible"       :> <<69, 108, 105, 103, 105, 98, 108, 101>>) @@
    ("Not Eligible"   :> <<78, 111, 116, 32, 69, 108, 105, 103, 105, 98, 108, 101>>) @@
    ("Employed"       :> <<69, 109, 112, 108, 111, 121, 101, 100>>) @@
    ("Self-employed"  :> <<83, 101, 108, 102, 45, 101, 109, 112, 108, 111, 121, 101, 100>>) @@
    ("Unemployed"     :> <<85, 110, 101, 109, 112, 108, 111, 121, 101, 100>>) @@
    ("Home Loan"      :> <<72, 111, 109, 101, 32, 76, 111, 97, 110>>) @@
    ("Education Loan" :> <<69, 100, 117, 99, 97, 116, 105, 111, 110, 32, 76, 111, 97, 110>>) @@
    ("Car Loan"       :> <<67, 97, 114, 32, 76, 111, 97, 110>>) @@
    ("Personal Loan"  :> <<80, 101, 114, 115, 111, 110, 97, 108, 32, 76, 111, 97, 110>>)

RECURSIVE LexLess(_, _)
LexLess(a, b) ==
    IF a = <<>> THEN b # <<>>
    ELSE IF b = <<>> THEN FALSE
    ELSE IF Head(a) < Head(b) THEN TRUE
    ELSE IF Head(a) > Head(b) THEN FALSE
    ELSE LexLess(Tail(a), Tail(b))

StrLess(s, t) == LexLess(Codes[s], Codes[t])

Range(f) == {f[x] : x \in DOMAIN f}

\* np.unique: the distinct values, in increasing order
RECURSIVE Unique(_)
Unique(S) ==
    IF S = {} THEN <<>>
    ELSE LET m == CHOOSE x \in S : \A y \in S \ {x} : StrLess(x, y)
         IN  <<m>> \o Unique(S \ {m})

-----------------------------------------------------------------------------
(* sklearn.preprocessing.LabelEncoder, as the program uses it *)

Unfitted == [fitted |-> FALSE, classes_ |-> <<>>]

Unseen == -1       \* transform raises ValueError: previously unseen label

\* LabelEncoder.fit: classes_ = np.unique(y)
LabelEncoderFit(ys) == [fitted |-> TRUE, classes_ |-> Unique(Range(ys))]

\* LabelEncoder.transform with positions counted from 1
LabelEncoderTransformOneBased(enc, y) ==
    IF \E k \in DOMAIN enc.classes_ : enc.classes_[k] = y
    THEN CHOOSE k \in DOMAIN enc.classes_ : enc.classes_[k] = y
    ELSE Unseen

\* LabelEncoder.transform: the position of y in classes_, or unseen
LabelEncoderTransform(enc, y) ==
    IF \E k \in DOMAIN enc.classes_ : enc.classes_[k] = y
    THEN (CHOOSE k \in DOMAIN enc.classes_ : enc.classes_[k] = y) - 1
    ELSE Unseen

LabelEncoderInverse(enc, idx) ==
    IF idx + 1 \in DOMAIN enc.classes_ THEN enc.classes_[idx + 1] ELSE "ValueError"

-----------------------------------------------------------------------------
(* generate_loan_data.determine_eligibility: the labeling policy *)

EmploymentStatuses == {"Employed", "Self-employed", "Unemployed"}
GeneratedLoanTypes == {"Home Loan", "Education Loan", "Car Loan"}

loan_criteria ==
    ("Home Loan" :> [min_income |-> 50000, preferred_income |-> 80000,
                     min_credit |-> 640, preferred_credit |-> 700]) @@
    ("Education Loan" :> [min_income |-> 30000, preferred_income |-> 50000,
                          min_credit |-> 620, preferred_credit |-> 680]) @@
    ("Car Loan" :> [min_income |-> 25000, preferred_income |-> 40000,
                    min_credit |-> 600, preferred_credit |-> 660])

\* "Automatic rejections": the three early returns
AutoRejectNoEmployment(row) ==
    LET criteria == loan_criteria[row.loan_type]
    IN  \/ row.credit_score < criteria.min_credit
        \/ row.income < criteria.min_income

AutoRejectInclusive(row) ==
    LET criteria == loan_criteria[row.loan_type]
    IN  \/ row.credit_score <= criteria.min_credit
        \/ (row.employment_status = "Unemployed" /\ row.loan_type # "Education Loan")
        \/ row.income <= criteria.min_income

AutoReject(row) ==
    LET criteria == loan_criteria[row.loan_type]
    IN  \/ row.credit_score < criteria.min_credit
        \/ (row.employment_status = "Unemployed" /\ row.loan_type # "Education Loan")
        \/ row.income < criteria.min_income

\* "Automatic approvals": income >= preferred_income * 1.5, written 2*income >= 3*preferred
AutoApproveStrict(row) ==
    LET criteria == loan_criteria[row.loan_type]
    IN  /\ row.credit_score > criteria.preferred_credit
        /\ 2 * row.income > 3 * criteria.preferred_income
        /\ row.employment_status = "Employed"

AutoApprove(row) ==
    LET criteria == loan_criteria[row.loan_type]
    IN  /\ row.credit_score >= criteria.preferred_credit
        /\ 2 * row.income >= 3 * criteria.preferred_income
        /\ row.employment_status = "Employed"

\* the employment bonus in tenths: 0.5, 0.3, nothing
BonusTenths(row) ==
    IF row.employment_status = "Employed" THEN 5
    ELSE IF row.employment_status = "Self-employed" THEN 3
    ELSE 0

\* score = (credit_score - min_credit)/200 + (income - min_income)/min_income + bonus,
\* over the common denominator 200 * min_income
ScoreDen(row) == 200 * loan_criteria[row.loan_type].min_income

ScoreNum(row) ==
    LET criteria == loan_criteria[row.loan_type]
    IN  criteria.min_income * (row.credit_score - criteria.min_credit)
        + 200 * (row.income - criteria.min_income)
        + 20 * criteria.min_income * BonusTenths(row)

ScorePassesInclusive(row) == ScoreNum(row) >= ScoreDen(row)

\* score > 1
ScorePasses(row) == ScoreNum(row) > ScoreDen(row)

\* which return statement of determine_eligibility a row leaves by
eligibility_branch(row) ==
    IF AutoReject(row) THEN "reject"
    ELSE IF AutoApprove(row) THEN "approve"
    ELSE "score"

determine_eligibility(row) ==
    CASE eligibility_branch(row) = "reject"  -> "Not Eligible"
      [] eligibility_branch(row) = "approve" -> "Eligible"
      [] OTHER -> IF ScorePasses(row) THEN "Eligible" ELSE "Not Eligible"

Labelled(row) ==
    [income |-> row.income, credit_score |-> row.credit_score,
     employment_status |-> row.employment_status, loan_type |-> row.loan_type,
     eligibility |-> determine_eligibility(row)]

Unlabelled(row) ==
    [income |-> row.income, credit_score |-> row.credit_score,
     employment_status |-> row.employment_status, loan_type |-> row.loan_type]

-----------------------------------------------------------------------------
(* Inputs of generate_loan_data: what the clipped draws can be.  Per loan  *)
(* type the incomes and credit scores sit on and next to the thresholds of *)
(* the policy and on the incomes at which the score is exactly 1.          *)

PolicyIncomes(t) ==
    LET mi == loan_criteria[t].min_income
        pi == loan_criteria[t].preferred_income
    IN  {mi - 1, mi, mi + 1,
         (13 * mi) \div 10, (13 * mi) \div 10 + 1,
         (16 * mi) \div 10, (16 * mi) \div 10 + 1,
         2 * mi, 2 * mi + 1,
         (3 * pi) \div 2 - 1, (3 * pi) \div 2,
         20000, 500000,
         24999, 25000, 150000, 150001}     \* the thresholds of the overrides

PolicyCredits(t) ==
    LET mc == loan_criteria[t].min_credit
        pc == loan_criteria[t].preferred_credit
    IN  {mc - 1, mc, mc + 20, mc + 40, pc - 1, pc, 300, 850,
         499, 500, 800, 801}                \* the thresholds of the overrides

PolicyRows ==
    UNION {[income : PolicyIncomes(t), credit_score : PolicyCredits(t),
            employment_status : EmploymentStatuses, loan_type : {t}]
           : t \in GeneratedLoanTypes}

SeqsOf(S, n) == [1..n -> S]

\* a finite set of integers, in increasing order
RECURSIVE SortedInts(_)
SortedInts(S) ==
    IF S = {} THEN <<>>
    ELSE LET m == CHOOSE x \in S : \A y \in S : x <= y
         IN  <<m>> \o SortedInts(S \ {m})

\* the categories in the order np.random.choice is given them
EmploymentChoices == <<"Employed", "Self-employed", "Unemployed">>
LoanTypeChoices == <<"Home Loan", "Education Loan", "Car Loan">>

\* The generator is a deterministic machine: its state decides every value it
\* hands out.  A state is a number below RngStates; the sample drawn in state s
\* is PolicyRowAt(s), and drawing it moves the generator to the next state.
RngStates == Cardinality(PolicyRows)

CreditValues == [t \in GeneratedLoanTypes |-> SortedInts(PolicyCredits(t))]
IncomeValues == [t \in GeneratedLoanTypes |-> SortedInts(PolicyIncomes(t))]

\* np.random.lognormal and np.random.normal in state s: the income drawn, and
\* the credit score drawn in tenths of a point.  The draws behind the lowest and
\* the highest value lie outside the range, the others carry a fraction of 0.7
LognormalDraw(s) ==
    LET t  == LoanTypeChoices[(s % 3) + 1]
        is == IncomeValues[t]
        income == is[((s \div (9 * Len(CreditValues[t]))) % Len(is)) + 1]
    IN  IF income = 20000 THEN 18500
        ELSE IF income = 500000 THEN 512345
        ELSE income

NormalDraw(s) ==
    LET cs == CreditValues[LoanTypeChoices[(s % 3) + 1]]
        credit == cs[((s \div 9) % Len(cs)) + 1]
    IN  IF credit = 300 THEN 2873
        ELSE IF credit = 850 THEN 8612
        ELSE 10 * credit + 7

\* np.clip(a, a_min, a_max)
NoClip(a, a_min, a_max) == a

np_clip(a, a_min, a_max) ==
    IF a < a_min THEN a_min ELSE IF a > a_max THEN a_max ELSE a

\* .astype(int) of a value in tenths: the fraction is dropped
astype_int(tenths) == IF tenths >= 0 THEN tenths \div 10 ELSE -((-tenths) \div 10)

PolicyRowAt(s) ==
    [income |-> np_clip(LognormalDraw(s), 20000, 500000),
     credit_score |-> astype_int(np_clip(NormalDraw(s), 3000, 8500)),
     employment_status |-> EmploymentChoices[((s \div 3) % 3) + 1],
     loan_type |-> LoanTypeChoices[(s % 3) + 1]]

\* the draws behind the samples of Draws(s, n)
RawDraws(s, n) ==
    [k \in 1..n |-> [income |-> LognormalDraw((s + k - 1) % RngStates),
                     credit_score |-> NormalDraw((s + k - 1) % RngStates)]]

\* the samples num_samples draws yield from state s, and the state they leave
Draws(s, n) == [k \in 1..n |-> PolicyRowAt((s + k - 1) % RngStates)]
After(s, n) == (s + n) % RngStates

\* draws since the generator was last in the seeded state
Drift == (rng + RngStates - seeded) % RngStates

-----------------------------------------------------------------------------
(* State *)

NoFile == [exists |-> FALSE]
NoCall == [status |-> "none"]

UnfittedModel == [fitted |-> FALSE, run |-> 0, classes_ |-> {}, y_index |-> <<>>]
UnfittedScaler == [fitted |-> FALSE, run |-> 0]

\* no result in the result frame
NoDisplay == [shown |-> FALSE, fresh |-> FALSE, eligible |-> FALSE, confidence |-> 0]

\* the application before it is started
\* messagebox.showwarning / showerror: the box on screen
Box(kind, title, text) == [kind |-> kind, title |-> title, text |-> text]

NoGui ==
    [entry |-> "none", window |-> "none", box |-> Box("none", "", ""), load |-> "none",
     pressed |-> FALSE, form |-> <<>>, display |-> NoDisplay]

\* a newly constructed instance, no artifact file, no call made yet
Quiet ==
    /\ runs = 0
    /\ df = <<>>
    /\ passed = <<>>
    /\ predictions = <<>>
    /\ result = NoCall
    /\ data = <<>>
    /\ branches = <<>>
    /\ previous = <<>>
    /\ op = "none"
    /\ X = <<>>
    /\ caller_df = <<>>
    /\ stage = "start"
    /\ gui = NoGui
    /\ draws = <<>>

Fresh ==
    /\ model = UnfittedModel
    /\ scaler = UnfittedScaler
    /\ label_encoders = <<>>
    /\ target_encoder = Unfitted
    /\ source = NoFile
    /\ callers = <<>>
    /\ Quiet

Constructed == Fresh /\ artifact = NoFile

Init ==
    /\ Constructed
    /\ seeded = 0
    /\ rng = 0
    /\ entered = 0

\* the generator starts in any state; which state seed(42) leads to is fixed
InitPolicy ==
    /\ Constructed
    /\ seeded \in 0..(RngStates - 1)
    /\ rng \in {After(seeded, d) : d \in 0..MaxDrift}
    /\ entered = rng

gen_vars == <<data, branches, rng, seeded, previous, entered, draws>>
app_vars == <<stage, gui, callers>>
instance_vars == <<model, scaler, label_encoders, target_encoder, artifact, runs, source>>
call_vars == <<df, passed, predictions, result, op, X, caller_df>>

-----------------------------------------------------------------------------
(* LoanEligibilityModel._apply_custom_rules *)

TargetLabels == <<"Not Eligible", "Eligible">>

\* "Strict rejection criteria"
StrictRejectionNoIncome(row) ==
    \/ row.credit_score < 500
    \/ (row.employment_status = "Unemployed" /\ row.loan_type = "Home Loan")

StrictRejectionBelowPreferred(row) ==
    \/ row.credit_score < 700
    \/ (row.employment_status = "Unemployed" /\ row.loan_type = "Home Loan")
    \/ (row.income < 25000 /\ row.loan_type = "Home Loan")

StrictRejection(row) ==
    \/ row.credit_score < 500
    \/ (row.employment_status = "Unemployed" /\ row.loan_type = "Home Loan")
    \/ (row.income < 25000 /\ row.loan_type = "Home Loan")

\* "Automatic approval for exceptional cases"
ExceptionalInclusive(row) ==
    /\ row.credit_score >= 800
    /\ row.income >= 150000
    /\ row.employment_status = "Employed"

ExceptionalWrongCredit(row) ==
    /\ row.credit_score > 820
    /\ row.income > 150000
    /\ row.employment_status = "Employed"

Exceptional(row) ==
    /\ row.credit_score > 800
    /\ row.income > 150000
    /\ row.employment_status = "Employed"

\* the index written for a label: a hard-wired NotEligible = 0, Eligible = 1
RuleIndexHardWired(enc, label) == IF label = "Not Eligible" THEN 0 ELSE 1

\* the index written for a label: a 1-based position in classes_
RuleIndexOneBased(enc, label) ==
    CHOOSE k \in DOMAIN enc.classes_ : enc.classes_[k] = label

\* the index written for a label: self.target_encoder.transform([label])[0]
RuleIndex(enc, label) == LabelEncoderTransform(enc, label)

\* one iteration of the loop: the value of predictions[i] after it
RuleRow(row, pred, enc) ==
    IF StrictRejection(row) THEN RuleIndex(enc, "Not Eligible")
    ELSE IF Exceptional(row) THEN RuleIndex(enc, "Eligible")
    ELSE pred

\* the array object after the loop (it is written in place and returned)
apply_custom_rules(frame, preds, enc) ==
    [k \in DOMAIN preds |-> RuleRow(frame[k], preds[k], enc)]

-----------------------------------------------------------------------------
(* LoanEligibilityModel.preprocess_data *)

CategoricalColumns == <<"employment_status", "loan_type">>

Column(frame, column) ==
    [k \in DOMAIN frame |->
        IF column = "employment_status" THEN frame[k].employment_status
        ELSE frame[k].loan_type]

\* training=True: a new LabelEncoder per categorical column, fitted on the column
FitEncoders(frame) ==
    [column \in Range(CategoricalColumns) |-> LabelEncoderFit(Column(frame, column))]

\* fit_transform of one column: the positions np.unique(return_inverse) gives
LabelEncoderFitTransform(ys) ==
    LET classes == Unique(Range(ys))
    IN  [k \in DOMAIN ys |-> (CHOOSE i \in DOMAIN classes : classes[i] = ys[k]) - 1]

\* training=False with a transform that lets unseen categories through
TransformStatusLenient(encoders, scl, frame) ==
    IF \E column \in Range(CategoricalColumns) : column \notin DOMAIN encoders
    THEN "KeyError"
    ELSE IF ~scl.fitted THEN "NotFittedError"
    ELSE "ok"

\* training=False: the exception preprocess_data leaves by, or "ok"
TransformStatus(encoders, scl, frame) ==
    IF \E column \in Range(CategoricalColumns) : column \notin DOMAIN encoders
    THEN "KeyError"
    ELSE IF \E column \in Range(CategoricalColumns) : \E k \in DOMAIN frame :
            LabelEncoderTransform(encoders[column], Column(frame, column)[k]) = Unseen
    THEN "ValueError"
    ELSE IF ~scl.fitted THEN "NotFittedError"
    ELSE "ok"

\* _calculate_income_ratio: income / typical amount, counted in 1/RatioUnit
typical_loan_amounts ==
    ("Home Loan" :> 250000) @@ ("Education Loan" :> 50000) @@ ("Car Loan" :> 35000)
DefaultLoanAmount == 50000
RatioUnit == 1750000

\* the ratio if loan_type were looked up after it was encoded: no key matches
RatioAfterEncoding(income, loan_type) == income * (RatioUnit \div DefaultLoanAmount)

calculate_income_ratio(income, loan_type) ==
    income * (RatioUnit \div (IF loan_type \in DOMAIN typical_loan_amounts
                              THEN typical_loan_amounts[loan_type]
                              ELSE DefaultLoanAmount))

NumericalColumns == <<"income", "credit_score", "income_to_loan_ratio">>

\* the numerical columns of a frame once income_to_loan_ratio is added: the
\* ratio is computed from the income as given, before anything is scaled
Numerical(row, column) ==
    IF column = "income" THEN row.income
    ELSE IF column = "credit_score" THEN row.credit_score
    ELSE calculate_income_ratio(row.income, row.loan_type)

RECURSIVE SumSeq(_)
SumSeq(xs) == IF xs = <<>> THEN 0 ELSE Head(xs) + SumSeq(Tail(xs))

\* StandardScaler.fit: per column the mean (kept as sum and count) and the
\* scale, a function of the deviations from the mean (kept as n*x - sum per row)
StandardScalerFit(frame, run) ==
    LET n == Len(frame)
        sum == [column \in Range(NumericalColumns) |->
                   SumSeq([k \in DOMAIN frame |-> Numerical(frame[k], column)])]
    IN  [fitted |-> TRUE, run |-> run, n_samples_seen_ |-> n, sum |-> sum,
         scale_ |-> [column \in Range(NumericalColumns) |->
                        [k \in DOMAIN frame |->
                            n * Numerical(frame[k], column) - sum[column]]]]

\* StandardScaler.transform of one value: (x - mean_) / scale_, kept as the
\* numerator n*x - sum over the stored scale
StandardScalerTransform(scl, column, x) ==
    [num |-> scl.n_samples_seen_ * x - scl.sum[column], scale |-> scl.scale_[column]]

\* the encoders and the scaler preprocess_data leaves on the instance
EncodersRefitted(encoders, frame, training) == FitEncoders(frame)

EncodersAfter(encoders, frame, training) ==
    IF training THEN FitEncoders(frame) ELSE encoders

ScalerAfter(scl, frame, training, run) ==
    IF training THEN StandardScalerFit(frame, run) ELSE scl

\* the category indices of one column: fit_transform or transform
EncodedColumn(encoders, frame, column, training) ==
    IF training THEN LabelEncoderFitTransform(Column(frame, column))
    ELSE [k \in DOMAIN frame |->
             LabelEncoderTransform(encoders[column], Column(frame, column)[k])]

\* df_processed as preprocess_data returns it
Processed(encoders, scl, frame, training, run) ==
    LET s == ScalerAfter(scl, frame, training, run)
        e == [column \in Range(CategoricalColumns) |->
                 EncodedColumn(encoders, frame, column, training)]
    IN  [k \in DOMAIN frame |->
            [income |-> StandardScalerTransform(s, "income", frame[k].income),
             credit_score |->
                 StandardScalerTransform(s, "credit_score", frame[k].credit_score),
             employment_status |-> e["employment_status"][k],
             loan_type |-> e["loan_type"][k],
             income_to_loan_ratio |->
                 StandardScalerTransform(s, "income_to_loan_ratio",
                     calculate_income_ratio(frame[k].income, frame[k].loan_type))]]

\* df.copy(): the columns are assigned on the copy, the caller keeps its frame
CallerFrame(frame, processed) == frame

-----------------------------------------------------------------------------
(* Inputs of predict and train *)

RuleIncomes == {24999, 25000, 150000, 150001, 200000}
RuleCredits == {450, 499, 500, 800, 801, 820}
FormLoanTypes == GeneratedLoanTypes \cup {"Personal Loan"}

RuleRows ==
    [income : RuleIncomes, credit_score : RuleCredits,
     employment_status : EmploymentStatuses, loan_type : FormLoanTypes]

\* the rows of frames of more than one record
PairRows ==
    {[income |-> 200000, credit_score |-> 450, employment_status |-> "Employed",
      loan_type |-> "Home Loan"],
     [income |-> 200000, credit_score |-> 820, employment_status |-> "Employed",
      loan_type |-> "Car Loan"],
     [income |-> 25000, credit_score |-> 500, employment_status |-> "Self-employed",
      loan_type |-> "Education Loan"]}

Frames ==
    SeqsOf(RuleRows, 1) \cup UNION {SeqsOf(PairRows, n) : n \in 2..MaxRows}

\* training corpora: rows labelled by the policy
Corpus(rows) == [k \in DOMAIN rows |-> Labelled(rows[k])]

Corpora ==
    {Corpus(<<[income |-> 130000, credit_score |-> 720,
               employment_status |-> "Employed", loan_type |-> "Home Loan"],
              [income |-> 60000, credit_score |-> 580,
               employment_status |-> "Unemployed", loan_type |-> "Car Loan"],
              [income |-> 40000, credit_score |-> 650,
               employment_status |-> "Self-employed", loan_type |-> "Education Loan"]>>),
     Corpus(<<[income |-> 60000, credit_score |-> 580,
               employment_status |-> "Unemployed", loan_type |-> "Car Loan"],
              [income |-> 40000, credit_score |-> 650,
               employment_status |-> "Self-employed", loan_type |-> "Education Loan"]>>),
     Corpus(<<[income |-> 130000, credit_score |-> 720,
               employment_status |-> "Employed", loan_type |-> "Home Loan"]>>)}

-----------------------------------------------------------------------------
(* LoanEligibilityModel.train *)

\* train_test_split(test_size=0.2): n_test = ceil(0.2 * n)
TestSize(n) == (n + 4) \div 5

\* the test rows the shuffle can pick
TestSets(n) == {T \in SUBSET (1..n) : Cardinality(T) = TestSize(n)}

\* y = self.target_encoder.transform(df['eligibility'])
EncodeTargets(enc, corpus) ==
    [k \in DOMAIN corpus |-> LabelEncoderTransform(enc, corpus[k].eligibility)]

\* The fitted forest is a fixed function of a processed row.  Which function
\* the fit arrives at is left open: a single leaf, or a split of the rows at the
\* fitted mean of credit_score or after the first loan_type category; `high` is
\* the class the forest gives the larger probability on the upper side.
SplitFeatures == {"none", "credit_score", "loan_type"}

Kinds(classes) ==
    IF Cardinality(classes) = 1
    THEN {[feature |-> "none", high |-> c] : c \in classes}
    ELSE [feature : SplitFeatures, high : classes]

OnHighSide(kind, x) ==
    \/ kind.feature = "none"
    \/ kind.feature = "credit_score" /\ x.credit_score.num > 0
    \/ kind.feature = "loan_type" /\ x.loan_type >= 1

\* self.model.predict_proba(X), one row: percent per class of classes_
predict_proba(m, x) ==
    [c \in m.classes_ |->
        IF Cardinality(m.classes_) = 1 THEN 100
        ELSE IF (c = m.kind.high) <=> OnHighSide(m.kind, x) THEN 80 ELSE 20]

\* self.model.predict(X), one row: the class of the largest probability
model_predict(m, x) ==
    CHOOSE c \in m.classes_ :
        \A d \in m.classes_ : predict_proba(m, x)[c] >= predict_proba(m, x)[d]

\* self.model.fit(X_train, y_train)
ModelFit(run, y, enc, kind) ==
    [fitted |-> TRUE, run |-> run, classes_ |-> y, kind |-> kind,
     y_index |-> [l \in Range(TargetLabels) |-> LabelEncoderTransform(enc, l)]]

train(corpus, test) ==
    LET n == Len(corpus)
        enc == LabelEncoderFit(TargetLabels)
        y == EncodeTargets(enc, corpus)
        y_train == {y[k] : k \in (DOMAIN corpus) \ test}
    IN  /\ result = NoCall
        /\ runs < MaxRuns
        /\ runs' = runs + 1
        /\ op' = "train"
        /\ df' = corpus
        /\ caller_df' = CallerFrame(corpus, X')
        /\ X' = Processed(label_encoders, scaler, corpus, TRUE, runs + 1)
        /\ label_encoders' = EncodersAfter(label_encoders, corpus, TRUE)
        /\ scaler' = ScalerAfter(scaler, corpus, TRUE, runs + 1)
        /\ target_encoder' = enc
        /\ IF n - TestSize(n) = 0
           THEN \* train_test_split raises ValueError: the train set would be empty
                /\ model' = model
                /\ result' = [status |-> "ValueError"]
           ELSE \E kind \in Kinds(y_train) :
                /\ model' = ModelFit(runs + 1, y_train, enc, kind)
                /\ result' = [status |-> "trained"]
        /\ source' = NoFile     \* refitted: no longer the instance as loaded
        /\ UNCHANGED <<artifact, passed, predictions, gen_vars>>

Train ==
    /\ \E corpus \in Corpora : \E test \in TestSets(Len(corpus)) : train(corpus, test)
    /\ UNCHANGED app_vars

-----------------------------------------------------------------------------
(* LoanEligibilityModel.preprocess_data called by itself *)

preprocess_data(frame, training) ==
    LET status == IF training THEN "ok"
                  ELSE TransformStatus(label_encoders, scaler, frame)
    IN  /\ result = NoCall
        /\ training => runs < MaxRuns
        /\ runs' = IF training THEN runs + 1 ELSE runs
        /\ op' = "preprocess_data"
        /\ df' = frame
        /\ caller_df' = CallerFrame(frame, X')
        /\ label_encoders' = EncodersAfter(label_encoders, frame, training)
        /\ scaler' = ScalerAfter(scaler, frame, training, runs + 1)
        /\ IF status = "ok"
           THEN /\ X' = Processed(label_encoders, scaler, frame, training, runs + 1)
                /\ result' = [status |-> "processed", training |-> training]
           ELSE /\ X' = <<>>
                /\ result' = [status |-> status]
        /\ source' = IF training THEN NoFile ELSE source
        /\ UNCHANGED <<model, target_encoder, artifact, passed, predictions, gen_vars>>

Preprocess ==
    /\ \E frame \in Corpora : \E training \in BOOLEAN : preprocess_data(frame, training)
    /\ UNCHANGED app_vars

-----------------------------------------------------------------------------
(* LoanEligibilityModel.predict *)

\* self.target_encoder.inverse_transform(predictions)
Decode(enc, preds) == [k \in DOMAIN preds |-> LabelEncoderInverse(enc, preds[k])]

\* prediction_proba as predict returns it: one-hot on the label after the rules
ProbaOfReturnedLabel(m, x, adjusted) ==
    [c \in m.classes_ |-> IF c = adjusted THEN 100 ELSE 0]

\* prediction_proba as predict returns it: line 164's array, not touched again
prediction_proba(m, x, adjusted) == predict_proba(m, x)

\* a call that cannot be served answers every row with a default label
FallbackPrediction(status, processed, frame) ==
    [X |-> processed, passed |-> <<>>, predictions |-> <<>>,
     result |-> [status |-> "ok",
                 labels |-> [k \in DOMAIN frame |-> "Not Eligible"],
                 proba |-> [k \in DOMAIN frame |-> <<>>]]]

\* predict has no try/except: the exception of a step is the outcome of the call
Raised(status, processed, frame) ==
    [X |-> processed, passed |-> <<>>, predictions |-> <<>>,
     result |-> [status |-> status]]

\* what predict returns or raises, and the arrays it works on
Outcome(m, scl, encoders, enc, frame) ==
    LET status == TransformStatus(encoders, scl, frame)
        processed == Processed(encoders, scl, frame, FALSE, scl.run)
        preds == [k \in DOMAIN frame |-> model_predict(m, processed[k])]
        after == apply_custom_rules(frame, preds, enc)
        labels == Decode(enc, after)
    IN  IF status # "ok" THEN Raised(status, <<>>, frame)
        ELSE IF ~m.fitted THEN Raised("NotFittedError", processed, frame)
        ELSE [X |-> processed, passed |-> preds, predictions |-> after,
              result |-> IF "ValueError" \in Range(labels)
                         THEN [status |-> "ValueError"]
                         ELSE [status |-> "ok", labels |-> labels,
                               proba |-> [k \in DOMAIN frame |->
                                             prediction_proba(m, processed[k],
                                                              after[k])]]]

predict(frame) ==
    LET out == Outcome(model, scaler, label_encoders, target_encoder, frame)
    IN  /\ result = NoCall
        /\ op' = "predict"
        /\ df' = frame
        /\ caller_df' = CallerFrame(frame, X')
        /\ label_encoders' = EncodersAfter(label_encoders, frame, FALSE)
        /\ scaler' = ScalerAfter(scaler, frame, FALSE, scaler.run)
        /\ X' = out.X
        /\ passed' = out.passed
        /\ predictions' = out.predictions
        /\ result' = out.result
        /\ UNCHANGED <<model, target_encoder, artifact, runs, source, gen_vars>>

Predict ==
    /\ \E frame \in Frames : predict(frame)
    /\ UNCHANGED app_vars

\* the caller is done with what the call returned: the frame and the arrays are dropped
EndCall ==
    /\ result # NoCall
    /\ df' = <<>> /\ passed' = <<>> /\ predictions' = <<>> /\ result' = NoCall
    /\ op' = "none" /\ X' = <<>> /\ caller_df' = <<>>
    /\ UNCHANGED <<instance_vars, gen_vars>>
    /\ UNCHANGED app_vars

-----------------------------------------------------------------------------
(* LoanEligibilityModel.save_model and load_model *)

PieceKeys == {"model", "scaler", "label_encoders", "target_encoder"}

\* joblib.dump of the dict of the four pieces
save_model ==
    /\ result = NoCall
    /\ artifact' = [exists |-> TRUE, writer |-> "save_model", readable |-> TRUE,
                    keys |-> PieceKeys, model |-> model, scaler |-> scaler,
                    label_encoders |-> label_encoders,
                    target_encoder |-> target_encoder]
    /\ UNCHANGED <<model, scaler, label_encoders, target_encoder, runs, source,
                   gen_vars, call_vars>>

\* files at the artifact's path that no save_model of this class wrote: bytes
\* joblib cannot read, a dict without 'target_encoder', and a dict with the four
\* keys holding estimators that were never fitted
ForeignBundles ==
    {[exists |-> TRUE, writer |-> "other", readable |-> r, keys |-> ks,
      model |-> UnfittedModel, scaler |-> UnfittedScaler, label_encoders |-> <<>>,
      target_encoder |-> Unfitted] :
        <<r, ks>> \in {<<FALSE, {}>>, <<TRUE, PieceKeys \ {"target_encoder"}>>,
                       <<TRUE, PieceKeys>>}}

ExternalWrite ==
    /\ result = NoCall
    /\ \E bundle \in ForeignBundles : artifact' = bundle
    /\ UNCHANGED <<model, scaler, label_encoders, target_encoder, runs, source,
                   gen_vars, call_vars>>
    /\ UNCHANGED app_vars

\* the exception load_model leaves by, or "loaded"
LoadStatus(file) ==
    IF ~file.exists THEN "FileNotFoundError"      \* raised by joblib.load's open
    ELSE IF ~file.readable THEN "UnpicklingError" \* raised inside joblib.load
    ELSE IF ~(PieceKeys \subseteq file.keys) THEN "KeyError"
    ELSE "loaded"

\* the piece load_model assigns from model_data; cls() starts from fresh pieces
TargetEncoderNotRestored(bundle, piece) ==
    IF piece = "target_encoder" THEN Unfitted ELSE bundle[piece]

Restored(bundle, piece) == bundle[piece]

load_model ==
    LET status == LoadStatus(artifact)
    IN  /\ result = NoCall
        /\ op' = "load_model"
        /\ result' = [status |-> status]
        /\ IF status = "loaded"
           THEN /\ model' = Restored(artifact, "model")
                /\ scaler' = Restored(artifact, "scaler")
                /\ label_encoders' = Restored(artifact, "label_encoders")
                /\ target_encoder' = Restored(artifact, "target_encoder")
                /\ source' = artifact
           ELSE UNCHANGED <<model, scaler, label_encoders, target_encoder, source>>
        /\ UNCHANGED <<artifact, runs, gen_vars, df, passed, predictions, X, caller_df,
                       app_vars>>

-----------------------------------------------------------------------------
(* generate_loan_data(num_samples) *)

\* np.random.seed(42): the generator state the draws start from
SeedOmitted(current) == current

StateAfterSeed(current) == seeded

generate_loan_data(num_samples) ==
    LET start == StateAfterSeed(rng)
        samples == Draws(start, num_samples)
    IN  /\ data' = [k \in DOMAIN samples |-> Labelled(samples[k])]
        /\ branches' = [k \in DOMAIN samples |-> eligibility_branch(samples[k])]
        /\ rng' = After(start, num_samples)
        /\ previous' = data
        /\ entered' = rng
        /\ draws' = RawDraws(start, num_samples)
        /\ UNCHANGED <<seeded, instance_vars, call_vars>>

Generate ==
    /\ \E num_samples \in 1..MaxSamples : generate_loan_data(num_samples)
    /\ UNCHANGED app_vars

\* some other code of the process draws from np.random
OtherRandomUse ==
    /\ Drift < MaxDrift
    /\ rng' = After(rng, 1)
    /\ UNCHANGED <<data, branches, seeded, previous, entered, draws, instance_vars,
                   call_vars>>
    /\ UNCHANGED app_vars

SpecPolicy == InitPolicy /\ [][Generate \/ OtherRandomUse]_vars

\* one instance through its fits and calls
Next == Train \/ Preprocess \/ Predict \/ EndCall

Spec == Init /\ [][Next]_vars

\* the test cases of the training entry point, one by one and as one frame
test_cases ==
    <<[income |-> 35000, credit_score |-> 580, employment_status |-> "Unemployed",
       loan_type |-> "Car Loan"],
      [income |-> 150000, credit_score |-> 820, employment_status |-> "Employed",
       loan_type |-> "Home Loan"],
      [income |-> 60000, credit_score |-> 700, employment_status |-> "Self-employed",
       loan_type |-> "Education Loan"]>>

StoreFrames == {<<test_cases[k]>> : k \in DOMAIN test_cases} \cup {test_cases}

PredictStored ==
    /\ \E frame \in StoreFrames : predict(frame)
    /\ UNCHANGED app_vars

\* an instance and the artifact file: fits, saves, loads and predictions
Save == save_model /\ UNCHANGED app_vars

NextStore ==
    Train \/ PredictStored \/ EndCall \/ Save \/ load_model \/ ExternalWrite

SpecStore == Init /\ [][NextStore]_vars

-----------------------------------------------------------------------------
(* The form of LoanEligibilityGUI: entries, _validate_inputs, predict_eligibility *)

\* the text of a free-text entry: empty, a numeral (incomes and amounts in
\* tenths of their unit), "nan", a numeral float() reads as inf ("inf", "1e999"),
\* "-inf", or a text float() rejects
Text(kind) == [kind |-> kind, v |-> 0]
Num(v) == [kind |-> "num", v |-> v]

\* float(text) returns; int(text) returns for kind "num" only
IsFloat(t) == t.kind \in {"num", "nan", "inf", "-inf"}

\* x <= 0, x < 0, x >= c, x <= c on floats: every comparison with nan is False
LeqZero(x) == x.kind = "-inf" \/ (x.kind = "num" /\ x.v <= 0)
LtZero(x) == x.kind = "-inf" \/ (x.kind = "num" /\ x.v < 0)
Geq(x, c) == x.kind = "inf" \/ (x.kind = "num" /\ x.v >= c)
Leq(x, c) == x.kind = "-inf" \/ (x.kind = "num" /\ x.v <= c)

\* initialize_loan_requirements: minimum_income in tenths of LPA,
\* maximum_loan_amount in tenths of a lakh
loan_requirements ==
    [t \in {"Home Loan", "Education Loan", "Car Loan", "Personal Loan",
            "Business Loan"} |->
        CASE t = "Home Loan" ->
                [minimum_income |-> 50, minimum_credit_score |-> 650,
                 maximum_loan_amount |-> 800]
          [] t = "Education Loan" ->
                [minimum_income |-> 30, minimum_credit_score |-> 620,
                 maximum_loan_amount |-> 250]
          [] t = "Car Loan" ->
                [minimum_income |-> 35, minimum_credit_score |-> 630,
                 maximum_loan_amount |-> 150]
          [] t = "Personal Loan" ->
                [minimum_income |-> 40, minimum_credit_score |-> 680,
                 maximum_loan_amount |-> 100]
          [] t = "Business Loan" ->
                [minimum_income |-> 60, minimum_credit_score |-> 700,
                 maximum_loan_amount |-> 500]]

\* the values of the loan term combobox
LoanTerms == {12, 24, 36, 48, 60, 72, 84, 120, 180, 240, 300, 360}

\* the variables' values when the form is built and after clear_form
DefaultForm ==
    [income |-> Text("empty"), coapplicant_income |-> Text("empty"),
     credit |-> Text("empty"), loan_amount |-> Text("empty"),
     loan_type |-> "Home Loan", loan_term |-> 36]

\* _validate_inputs: "ok", or the text of the warning it shows
ValueErrorWarning == "Please enter valid numeric values."

validate_inputs(f) ==
    IF f.income.kind = "empty" THEN "Please enter your annual income."
    ELSE IF ~IsFloat(f.income) THEN ValueErrorWarning
    ELSE IF LeqZero(f.income) THEN "Income must be greater than zero."
    ELSE IF f.coapplicant_income.kind # "empty" /\ ~IsFloat(f.coapplicant_income)
    THEN ValueErrorWarning
    ELSE IF f.coapplicant_income.kind # "empty" /\ LtZero(f.coapplicant_income)
    THEN "Co-applicant income cannot be negative."
    ELSE IF f.credit.kind = "empty" THEN "Please enter your credit score."
    ELSE IF f.credit.kind # "num" THEN ValueErrorWarning
    ELSE IF f.credit.v < 300 \/ f.credit.v > 850
    THEN "Credit score must be between 300 and 850."
    ELSE IF f.loan_amount.kind = "empty" THEN "Please enter the loan amount."
    ELSE IF ~IsFloat(f.loan_amount) THEN ValueErrorWarning
    ELSE IF LeqZero(f.loan_amount) THEN "Loan amount must be greater than zero."
    ELSE "ok"

\* _calculate_monthly_payment over monthly income, times 100, for one lakh of
\* loan and one LPA of income, in thousandths of a percent:
\* 1200 * r(1+r)^n / ((1+r)^n - 1) with r = 0.10 / 12
EmiFactor ==
    [n \in LoanTerms |->
        CASE n = 12 -> 105499 [] n = 24 -> 55374 [] n = 36 -> 38721
          [] n = 48 -> 30435 [] n = 60 -> 25496 [] n = 72 -> 22231
          [] n = 84 -> 19921 [] n = 120 -> 15858 [] n = 180 -> 12895
          [] n = 240 -> 11580 [] n = 300 -> 10904 [] n = 360 -> 10531]

\* int() of a quotient: towards zero
TruncDiv(n, d) == IF n >= 0 THEN n \div d ELSE -((-n) \div d)

\* the four requirements of line 876 on finite income and amount
meets_income(f) == Geq(f.income, loan_requirements[f.loan_type].minimum_income)
meets_credit(f) == f.credit.v >= loan_requirements[f.loan_type].minimum_credit_score
meets_loan_amount(f) ==
    Leq(f.loan_amount, loan_requirements[f.loan_type].maximum_loan_amount)

\* dti_ratio < 45 with dti_ratio = EmiFactor * loan_amount / income / 1000
DtiBelow(f) == EmiFactor[f.loan_term] * f.loan_amount.v < 45000 * f.income.v

\* the decision of predict_eligibility; self.model is in scope and is not read
EligibilityByClassifier(m, f) ==
    m.fitted /\ model_predict(m, [credit_score |-> [num |-> f.credit.v - 700],
                                  loan_type |-> IF f.loan_type = "Home Loan"
                                                THEN 2 ELSE 0])
                    = 0

Eligibility(m, f) ==
    meets_income(f) /\ meets_credit(f) /\ meets_loan_amount(f) /\ DtiBelow(f)

\* lines 878-883 before the bounds: the sum int() is applied to, as a fraction
ConfidenceUnbounded(f, eligible) ==
    LET req == loan_requirements[f.loan_type]
        cs == f.credit.v - req.minimum_credit_score
        inc == f.income.v - req.minimum_income
        debt == EmiFactor[f.loan_term] * f.loan_amount.v
    IN  IF eligible
        THEN TruncDiv((140000 + 400 * cs + 400 * inc) * f.income.v - debt,
                      2000 * f.income.v)
        ELSE TruncDiv((90000 + 300 * cs + 300 * inc) * f.income.v - debt,
                      3000 * f.income.v)

\* min(100, .), then max(5, min(95, .))
ConfidenceOf(f, eligible) ==
    LET sum == ConfidenceUnbounded(f, eligible)
        confidence == IF sum > 100 THEN 100 ELSE sum
    IN  IF confidence > 95 THEN 95 ELSE IF confidence < 5 THEN 5 ELSE confidence

\* what the arithmetic of lines 871-883 does with income and amount: a nan in
\* the sum makes int() raise ValueError, an infinity OverflowError; with both
\* infinite dti_ratio is inf / inf, a nan
Arithmetic(f) ==
    IF f.income.kind = "num" /\ f.loan_amount.kind = "num" THEN "finite"
    ELSE IF f.income.kind = "nan" \/ f.loan_amount.kind = "nan"
            \/ (f.income.kind = "inf" /\ f.loan_amount.kind = "inf")
    THEN "ValueError"
    ELSE "OverflowError"

\* the window after the button's handler ran on the form f
Pressed(m, g, f) ==
    LET warning == validate_inputs(f)
        eligible == Eligibility(m, f)
    IN  IF warning # "ok"
        THEN [g EXCEPT !.pressed = TRUE, !.form = f,
                       !.box = Box("warning", "Validation Error", warning),
                       !.display.fresh = FALSE]
        ELSE IF Arithmetic(f) = "ValueError"
        THEN [g EXCEPT !.pressed = TRUE, !.form = f,
                       !.box = Box("error", "Input Error", "ValueError"),
                       !.display.fresh = FALSE]
        ELSE IF Arithmetic(f) = "OverflowError"
        THEN [g EXCEPT !.pressed = TRUE, !.form = f,
                       !.box = Box("error", "Error", "OverflowError"),
                       !.display.fresh = FALSE]
        ELSE [g EXCEPT !.pressed = TRUE, !.form = f, !.box = Box("none", "", ""),
                       !.display = [shown |-> TRUE, fresh |-> TRUE,
                                    eligible |-> eligible,
                                    confidence |-> ConfidenceOf(f, eligible)]]

\* the forms entered: the requirements' boundaries, and one entry at a time
\* that is empty, not a numeral, out of range or not finite
BoundaryForms ==
    {f \in [income : {Num(49), Num(50), Num(200)},
            coapplicant_income : {Text("empty")},
            credit : {Num(649), Num(650)},
            loan_amount : {Num(100), Num(800), Num(801)},
            loan_type : DOMAIN loan_requirements, loan_term : {12, 360}] :
        f.loan_term = 360 \/ f.loan_type = "Home Loan"}

SoundForm ==
    [income |-> Num(200), coapplicant_income |-> Text("empty"), credit |-> Num(850),
     loan_amount |-> Num(100), loan_type |-> "Home Loan", loan_term |-> 360]

OddForms ==
    {[SoundForm EXCEPT !.income = t] :
        t \in {Text("empty"), Text("text"), Num(0 - 10), Num(0), Text("nan"),
               Text("inf"), Text("-inf")}}
    \cup {[SoundForm EXCEPT !.coapplicant_income = t] :
        t \in {Text("text"), Num(0 - 10), Num(0), Num(20), Text("nan"),
               Text("inf"), Text("-inf")}}
    \cup {[SoundForm EXCEPT !.credit = t] :
        t \in {Text("empty"), Text("text"), Num(299), Num(300), Num(851)}}
    \cup {[SoundForm EXCEPT !.loan_amount = t] :
        t \in {Text("empty"), Text("text"), Num(0 - 10), Num(0), Text("nan"),
               Text("inf"), Text("-inf")}}
    \cup {[SoundForm EXCEPT !.income = Text("inf"), !.loan_amount = Text("inf")]}

Forms == BoundaryForms \cup OddForms

-----------------------------------------------------------------------------
(* The application: main.py, loan_predication.main, LoanEligibilityGUI *)

\* the bundle train and save_model leave for a corpus, a split and a fitted forest
TrainedBundle(corpus, test, kind) ==
    LET enc == LabelEncoderFit(TargetLabels)
        y == EncodeTargets(enc, corpus)
    IN  [exists |-> TRUE, writer |-> "save_model", readable |-> TRUE,
         keys |-> PieceKeys,
         model |-> ModelFit(1, {y[k] : k \in (DOMAIN corpus) \ test}, enc, kind),
         scaler |-> StandardScalerFit(corpus, 1),
         label_encoders |-> FitEncoders(corpus),
         target_encoder |-> enc]

TrainedBundles ==
    UNION {UNION {{TrainedBundle(corpus, test, kind) :
                      kind \in Kinds({EncodeTargets(LabelEncoderFit(TargetLabels),
                                                    corpus)[k] :
                                          k \in (DOMAIN corpus) \ test})} :
                  test \in TestSets(Len(corpus))} :
           corpus \in {c \in Corpora : Len(c) > TestSize(Len(c))}}

\* what can be at the artifact's path when the application starts
GuiArtifacts == {NoFile} \cup ForeignBundles \cup TrainedBundles

InitGUI == Fresh /\ artifact \in GuiArtifacts /\ seeded = 0 /\ rng = 0 /\ entered = 0

\* main.py imports LoanEligibilityGUI from loan_eligibility_gui, a module the
\* repository does not hold under that name: without it the script ends here
MainPyNoModule ==
    /\ gui.entry = "none"
    /\ gui' = [gui EXCEPT !.entry = "ModuleNotFoundError"]
    /\ UNCHANGED <<instance_vars, gen_vars, call_vars, stage, callers>>

\* main.py main(): os.path.exists, then the root window
MainPy ==
    /\ gui.entry = "none"
    /\ gui' = IF ~artifact.exists
              THEN [gui EXCEPT !.entry = "returned", !.box = Box("error", "Model Not Found",
                                    "Please run train_model.py first")]
              ELSE [gui EXCEPT !.entry = "root"]
    /\ UNCHANGED <<instance_vars, gen_vars, call_vars, stage, callers>>

\* loan_predication.main(): the root window without a check
GuiMain ==
    /\ gui.entry = "none"
    /\ gui' = [gui EXCEPT !.entry = "root"]
    /\ UNCHANGED <<instance_vars, gen_vars, call_vars, stage, callers>>

\* LoanEligibilityGUI.__init__ after load_model: build the form, or show the
\* error and destroy the root, or let any other exception through
WindowAfterNoReturn(status) ==
    IF status \in {"loaded", "FileNotFoundError"} THEN "form" ELSE "crashed"

WindowAfter(status) ==
    IF status = "loaded" THEN "form"
    ELSE IF status = "FileNotFoundError" THEN "destroyed"
    ELSE "crashed"

GuiInit ==
    LET status == LoadStatus(artifact)
    IN  /\ gui.entry = "root"
        /\ gui' = [gui EXCEPT !.entry = "app", !.load = status,
                              !.window = WindowAfter(status),
                              !.form = IF WindowAfter(status) = "form"
                                       THEN DefaultForm ELSE @,
                              !.box = IF status = "FileNotFoundError"
                                      THEN Box("error", "Error",
                                               "Model file not found!")
                                      ELSE @]
        /\ IF status = "loaded"
           THEN /\ model' = Restored(artifact, "model")
                /\ scaler' = Restored(artifact, "scaler")
                /\ label_encoders' = Restored(artifact, "label_encoders")
                /\ target_encoder' = Restored(artifact, "target_encoder")
                /\ source' = artifact
           ELSE UNCHANGED <<model, scaler, label_encoders, target_encoder, source>>
        /\ UNCHANGED <<artifact, runs, gen_vars, call_vars, stage, callers>>

predict_eligibility ==
    /\ gui.window = "form"
    /\ \E f \in Forms : gui' = Pressed(model, gui, f)
    /\ UNCHANGED <<instance_vars, gen_vars, call_vars, stage, callers>>

clear_form ==
    /\ gui.window = "form"
    /\ gui.pressed
    /\ gui' = [gui EXCEPT !.pressed = FALSE, !.form = DefaultForm, !.box = Box("none", "", ""),
                          !.display = NoDisplay]
    /\ UNCHANGED <<instance_vars, gen_vars, call_vars, stage, callers>>

NextGUI ==
    MainPyNoModule \/ MainPy \/ GuiMain \/ GuiInit \/ predict_eligibility
        \/ clear_form

SpecGUI == InitGUI /\ [][NextGUI]_vars

-----------------------------------------------------------------------------
(* Several callers of predict on one loaded instance *)

\* one-row frames: the script's test cases, a rejected and an exceptional
\* applicant, and a loan type the encoders have not seen
SharedFrames ==
    {<<test_cases[k]>> : k \in DOMAIN test_cases}
    \cup {<<[income |-> 90000, credit_score |-> 450,
             employment_status |-> "Employed", loan_type |-> "Car Loan"]>>,
          <<[income |-> 160000, credit_score |-> 820,
             employment_status |-> "Employed", loan_type |-> "Home Loan"]>>,
          <<[income |-> 60000, credit_score |-> 700,
             employment_status |-> "Employed", loan_type |-> "Personal Loan"]>>}

\* df_processed, predictions, prediction_proba of one call
NoWork == [X |-> <<>>, predictions |-> <<>>, prediction_proba |-> <<>>]

\* where a call keeps its working arrays: in the locals of its own frame
LocalsOnInstance(c) == 0

Locals(c) == c

InitShared ==
    /\ \E bundle \in TrainedBundles :
        /\ artifact = bundle
        /\ source = bundle
        /\ model = bundle.model
        /\ scaler = bundle.scaler
        /\ label_encoders = bundle.label_encoders
        /\ target_encoder = bundle.target_encoder
    /\ callers = [at |-> [c \in 1..MaxCallers |-> "idle"],
                  df |-> [c \in 1..MaxCallers |-> <<>>],
                  locals |-> [c \in 0..MaxCallers |-> NoWork],
                  returned |-> [c \in 1..MaxCallers |-> NoCall]]
    /\ Quiet
    /\ seeded = 0
    /\ rng = 0
    /\ entered = 0

shared_unchanged == <<artifact, runs, source, gen_vars, call_vars, stage, gui>>

\* predict(df) is entered
CallerEnters(c) ==
    /\ callers.at[c] = "idle"
    /\ \E frame \in SharedFrames :
        callers' = [callers EXCEPT !.at[c] = "preprocess_data", !.df[c] = frame]
    /\ UNCHANGED <<model, scaler, label_encoders, target_encoder, shared_unchanged>>

\* line 159: df_processed = self.preprocess_data(df, training=False)
CallerPreprocesses(c) ==
    LET frame == callers.df[c]
        status == TransformStatus(label_encoders, scaler, frame)
    IN  /\ callers.at[c] = "preprocess_data"
        /\ label_encoders' = EncodersAfter(label_encoders, frame, FALSE)
        /\ scaler' = ScalerAfter(scaler, frame, FALSE, scaler.run)
        /\ callers' =
             IF status = "ok"
             THEN [callers EXCEPT !.at[c] = "model.predict",
                     !.locals[Locals(c)].X =
                         Processed(label_encoders, scaler, frame, FALSE, scaler.run)]
             ELSE [callers EXCEPT !.at[c] = "done",
                                  !.returned[c] = [status |-> status]]
        /\ UNCHANGED <<model, target_encoder, shared_unchanged>>

\* lines 163-164: self.model.predict(X), self.model.predict_proba(X)
CallerClassifies(c) ==
    LET mine == callers.locals[Locals(c)]
    IN  /\ callers.at[c] = "model.predict"
        /\ callers' =
             IF ~model.fitted
             THEN [callers EXCEPT !.at[c] = "done",
                                  !.returned[c] = [status |-> "NotFittedError"]]
             ELSE [callers EXCEPT !.at[c] = "_apply_custom_rules",
                     !.locals[Locals(c)].predictions =
                         [k \in DOMAIN mine.X |-> model_predict(model, mine.X[k])],
                     !.locals[Locals(c)].prediction_proba =
                         [k \in DOMAIN mine.X |-> predict_proba(model, mine.X[k])]]
        /\ UNCHANGED <<model, scaler, label_encoders, target_encoder, shared_unchanged>>

\* line 167: predictions = self._apply_custom_rules(df, predictions)
CallerAppliesRules(c) ==
    LET mine == callers.locals[Locals(c)]
    IN  /\ callers.at[c] = "_apply_custom_rules"
        /\ callers' =
             [callers EXCEPT !.at[c] = "inverse_transform",
                 !.locals[Locals(c)].predictions =
                     apply_custom_rules(callers.df[c], mine.predictions,
                                        target_encoder)]
        /\ UNCHANGED <<model, scaler, label_encoders, target_encoder, shared_unchanged>>

\* lines 170-172: the labels and the probabilities are returned
CallerReturns(c) ==
    LET mine == callers.locals[Locals(c)]
        labels == Decode(target_encoder, mine.predictions)
    IN  /\ callers.at[c] = "inverse_transform"
        /\ callers' =
             [callers EXCEPT !.at[c] = "done",
                 !.locals[Locals(c)] = NoWork,
                 !.returned[c] =
                     IF "ValueError" \in Range(labels)
                     THEN [status |-> "ValueError"]
                     ELSE [status |-> "ok", labels |-> labels,
                           proba |-> mine.prediction_proba]]
        /\ UNCHANGED <<model, scaler, label_encoders, target_encoder, shared_unchanged>>

\* the caller has used what it got
CallerLeaves(c) ==
    /\ callers.at[c] = "done"
    /\ callers' = [callers EXCEPT !.at[c] = "idle", !.df[c] = <<>>,
                                  !.returned[c] = NoCall]
    /\ UNCHANGED <<model, scaler, label_encoders, target_encoder, shared_unchanged>>

NextShared ==
    \E c \in 1..MaxCallers :
        \/ CallerEnters(c)
        \/ CallerPreprocesses(c)
        \/ CallerClassifies(c)
        \/ CallerAppliesRules(c)
        \/ CallerReturns(c)
        \/ CallerLeaves(c)

SpecShared == InitShared /\ [][NextShared]_vars

-----------------------------------------------------------------------------
(* The training entry point: generate, train, save, predict the test cases *)

\* a new process in an empty directory; the seeded generator state is fixed
InitMain ==
    /\ Constructed
    /\ seeded \in 0..(RngStates - 1)
    /\ rng = seeded
    /\ entered = rng

\* synthetic_data = generate_loan_data(5000), with the sample count scaled down
MainGenerate ==
    /\ stage = "start"
    /\ \E num_samples \in 1..MaxSamples : generate_loan_data(num_samples)
    /\ stage' = "generated"
    /\ UNCHANGED <<gui, callers>>

\* generation raises (the process is out of memory, say): the script ends there
MainGenerateFails ==
    /\ stage = "start"
    /\ stage' = "failed"
    /\ UNCHANGED <<instance_vars, gen_vars, call_vars>>
    /\ UNCHANGED <<gui, callers>>

\* loan_model.train(synthetic_data): an exception ends the script
MainTrain ==
    /\ stage = "generated"
    /\ \E test \in TestSets(Len(data)) : train(data, test)
    /\ stage' = IF result'.status = "trained" THEN "trained" ELSE "failed"
    /\ UNCHANGED <<gui, callers>>

\* the statement the script may go on to after train returned
SaveAnytime == stage \in {"trained", "failed"}

SaveReady == stage = "trained"

\* loan_model.save_model('loan_eligibility_model.joblib')
MainSave ==
    /\ SaveReady
    /\ save_model
    /\ stage' = "saved"
    /\ UNCHANGED <<gui, callers>>

\* loan_model.predict(test_cases)
MainPredict ==
    /\ stage = "saved"
    /\ predict(test_cases)
    /\ stage' = "done"
    /\ UNCHANGED <<gui, callers>>

NextMain ==
    MainGenerate \/ MainGenerateFails \/ MainTrain \/ EndCall \/ MainSave \/ MainPredict

SpecMain == InitMain /\ [][NextMain]_vars

-----------------------------------------------------------------------------
(* Properties of the rule override, checked under Spec *)

Returned == result.status = "ok"

\* C1: whenever predict returns, every record with credit_score < 500, or Unemployed
\* with a Home Loan, or income < 25000 with a Home Loan, is labelled Not Eligible,
\* whatever the classifier predicted for it (450 with a Home Loan included).
C1_RejectOverride ==
    Returned =>
        \A k \in DOMAIN df :
            (\/ df[k].credit_score < 500
             \/ (df[k].employment_status = "Unemployed" /\ df[k].loan_type = "Home Loan")
             \/ (df[k].income < 25000 /\ df[k].loan_type = "Home Loan"))
            => result.labels[k] = "Not Eligible"

\* a 450 / Home Loan record the classifier called Eligible comes back Not Eligible
C1_Witness ==
    /\ Returned
    /\ \E k \in DOMAIN df :
        /\ df[k].credit_score = 450 /\ df[k].loan_type = "Home Loan"
        /\ df[k].income = 200000 /\ df[k].employment_status = "Employed"
        /\ LabelEncoderInverse(target_encoder, passed[k]) = "Eligible"
        /\ result.labels[k] = "Not Eligible"

\* C2: whenever predict returns, every record with credit_score > 800, income > 150000
\* and Employed is labelled Eligible, for every loan type and classifier prediction;
\* no reject condition holds of such a record.
C2_AcceptOverride ==
    Returned =>
        \A k \in DOMAIN df :
            (df[k].credit_score > 800 /\ df[k].income > 150000
                /\ df[k].employment_status = "Employed")
            => /\ result.labels[k] = "Eligible"
               /\ ~(df[k].credit_score < 500)
               /\ ~(df[k].employment_status = "Unemployed" /\ df[k].loan_type = "Home Loan")
               /\ ~(df[k].income < 25000 /\ df[k].loan_type = "Home Loan")

\* 820 / 200000 / Employed with a Home Loan, called Not Eligible by the classifier
C2_Witness ==
    /\ Returned
    /\ \E k \in DOMAIN df :
        /\ df[k].credit_score = 820 /\ df[k].income = 200000
        /\ df[k].employment_status = "Employed" /\ df[k].loan_type = "Home Loan"
        /\ LabelEncoderInverse(target_encoder, passed[k]) = "Not Eligible"
        /\ result.labels[k] = "Eligible"

\* C3: a record of which no reject condition holds and which is not all of
\* credit_score > 800, income > 150000, Employed keeps the classifier's index.
C3_NoOverrideKeepsPrediction ==
    Returned =>
        \A k \in DOMAIN df :
            (/\ ~(df[k].credit_score < 500)
             /\ ~(df[k].employment_status = "Unemployed" /\ df[k].loan_type = "Home Loan")
             /\ ~(df[k].income < 25000 /\ df[k].loan_type = "Home Loan")
             /\ ~(df[k].credit_score > 800 /\ df[k].income > 150000
                    /\ df[k].employment_status = "Employed"))
            => predictions[k] = passed[k]

\* the boundary record 800 / 150000 / Employed keeps a Not Eligible prediction
C3_Witness ==
    /\ Returned
    /\ \E k \in DOMAIN df :
        /\ df[k].credit_score = 800 /\ df[k].income = 150000
        /\ df[k].employment_status = "Employed"
        /\ LabelEncoderInverse(target_encoder, passed[k]) = "Not Eligible"
        /\ predictions[k] = passed[k]
        /\ result.labels[k] = "Not Eligible"

\* C4: the target encoder fitted in train maps 'Not Eligible' to 0 and 'Eligible' to 1,
\* and the classifier's training targets are encoded so.
C4_LabelIndexConvention ==
    /\ target_encoder.fitted =>
        /\ LabelEncoderTransform(target_encoder, "Not Eligible") = 0
        /\ LabelEncoderTransform(target_encoder, "Eligible") = 1
    /\ model.fitted =>
        /\ model.y_index["Not Eligible"] = 0
        /\ model.y_index["Eligible"] = 1

\* C5: the index the override writes for a label is the index the training targets
\* with that label were encoded to, and predict decodes it back to that label.
C5_SharedConvention ==
    Returned =>
        \A k \in DOMAIN df :
            /\ (\/ df[k].credit_score < 500
                \/ (df[k].employment_status = "Unemployed" /\ df[k].loan_type = "Home Loan")
                \/ (df[k].income < 25000 /\ df[k].loan_type = "Home Loan"))
               => /\ predictions[k] = model.y_index["Not Eligible"]
                  /\ result.labels[k] = "Not Eligible"
            /\ (df[k].credit_score > 800 /\ df[k].income > 150000
                    /\ df[k].employment_status = "Employed")
               => /\ predictions[k] = model.y_index["Eligible"]
                  /\ result.labels[k] = "Eligible"
            /\ model.y_index[result.labels[k]] = predictions[k]

\* one call in which both overrides wrote, against the classifier
C5_Witness ==
    /\ Returned
    /\ \E j, k \in DOMAIN df :
        /\ df[j].credit_score < 500 /\ predictions[j] # passed[j]
        /\ predictions[j] = model.y_index["Not Eligible"]
        /\ df[k].credit_score > 800 /\ predictions[k] # passed[k]
        /\ predictions[k] = model.y_index["Eligible"]

\* C6: with classifier indices in {0,1} the override's indices are in {0,1}, and
\* every label predict returns is 'Eligible' or 'Not Eligible'.
C6_IndexInRange ==
    /\ \A k \in DOMAIN predictions :
        passed[k] \in {0, 1} => predictions[k] \in {0, 1}
    /\ Returned =>
        \A k \in DOMAIN df : result.labels[k] \in {"Eligible", "Not Eligible"}
    /\ (result.status = "ValueError" /\ passed # <<>>) => \E k \in DOMAIN passed : passed[k] \notin {0, 1}

\* a call in which an override replaced the classifier's index
C6_Witness ==
    /\ Returned
    /\ \E k \in DOMAIN df :
        /\ predictions[k] # passed[k]
        /\ predictions[k] \in {0, 1}
        /\ result.labels[k] \in {"Eligible", "Not Eligible"}

\* C7: the override modifies neither the records nor the array of predicted indices
\* it is given, and a record's final index depends only on the record and its own
\* predicted index.
C7_PureOverride ==
    Returned =>
        /\ predictions = passed
        /\ \A j, k \in DOMAIN df :
            (df[j] = df[k] /\ passed[j] = passed[k]) => result.labels[j] = result.labels[k]

-----------------------------------------------------------------------------
(* Properties of the labeling policy, checked under SpecPolicy *)

\* C8: a row with credit_score < min_credit, or Unemployed with another loan type than
\* Education Loan, or income < min_income is labelled Not Eligible by the first branch,
\* before the hard accept and the score are looked at.
C8_HardReject ==
    \A k \in DOMAIN data :
        LET c == loan_criteria[data[k].loan_type]
        IN  (\/ data[k].credit_score < c.min_credit
             \/ (data[k].employment_status = "Unemployed"
                    /\ data[k].loan_type # "Education Loan")
             \/ data[k].income < c.min_income)
            => /\ data[k].eligibility = "Not Eligible"
               /\ branches[k] = "reject"

\* an Unemployed Car Loan row whose credit and income would pass every other test
C8_Witness ==
    \E k \in DOMAIN data :
        /\ data[k].employment_status = "Unemployed" /\ data[k].loan_type = "Car Loan"
        /\ data[k].credit_score = 850 /\ data[k].income = 500000
        /\ data[k].eligibility = "Not Eligible"

\* C9: a row no hard-reject condition holds of, with credit_score >= preferred_credit,
\* income >= 1.5 x preferred_income and Employed, is labelled Eligible by the hard
\* accept, without the score.
C9_HardAccept ==
    \A k \in DOMAIN data :
        LET c == loan_criteria[data[k].loan_type]
        IN  (/\ ~(data[k].credit_score < c.min_credit)
             /\ ~(data[k].employment_status = "Unemployed"
                    /\ data[k].loan_type # "Education Loan")
             /\ ~(data[k].income < c.min_income)
             /\ data[k].credit_score >= c.preferred_credit
             /\ 10 * data[k].income >= 15 * c.preferred_income
             /\ data[k].employment_status = "Employed")
            => /\ data[k].eligibility = "Eligible"
               /\ branches[k] = "approve"

\* the row exactly on both accept thresholds of the Home Loan
C9_Witness ==
    \E k \in DOMAIN data :
        /\ data[k].loan_type = "Home Loan" /\ data[k].employment_status = "Employed"
        /\ data[k].credit_score = 700 /\ data[k].income = 120000
        /\ data[k].eligibility = "Eligible" /\ branches[k] = "approve"

\* the claim's score of a labelled row, times 2000 * min_income
ClaimScoreTimes(r) ==
    LET c == loan_criteria[r.loan_type]
        bonusTenths == CASE r.employment_status = "Employed" -> 5
                         [] r.employment_status = "Self-employed" -> 3
                         [] r.employment_status = "Unemployed" -> 0
    IN  10 * c.min_income * (r.credit_score - c.min_credit)
        + 2000 * (r.income - c.min_income)
        + 200 * c.min_income * bonusTenths

\* C10: a row neither hard-rejected nor hard-accepted is labelled Eligible iff
\* (credit_score - min_credit)/200 + (income - min_income)/min_income + bonus > 1,
\* bonus 0.5 / 0.3 / 0 for Employed / Self-employed / Unemployed; a score of exactly 1
\* gives Not Eligible.
C10_ScoreRule ==
    \A k \in DOMAIN data :
        LET c == loan_criteria[data[k].loan_type]
        IN  (/\ ~(data[k].credit_score < c.min_credit)
             /\ ~(data[k].employment_status = "Unemployed"
                    /\ data[k].loan_type # "Education Loan")
             /\ ~(data[k].income < c.min_income)
             /\ ~(/\ data[k].credit_score >= c.preferred_credit
                  /\ 10 * data[k].income >= 15 * c.preferred_income
                  /\ data[k].employment_status = "Employed"))
            => (data[k].eligibility = "Eligible"
                    <=> ClaimScoreTimes(data[k]) > 2000 * c.min_income)

\* a scored row whose score is exactly 1
C10_Witness ==
    \E k \in DOMAIN data :
        /\ branches[k] = "score"
        /\ ClaimScoreTimes(data[k]) = 2000 * loan_criteria[data[k].loan_type].min_income
        /\ data[k].eligibility = "Not Eligible"

\* C11: for every loan type, the Employed row with income = min_income and
\* credit_score = min_credit is not hard-rejected: it leaves by the scoring branch,
\* which decides its label (score 0.5, hence Not Eligible).
C11_BoundaryFallsToScore ==
    \A k \in DOMAIN data :
        LET c == loan_criteria[data[k].loan_type]
        IN  (/\ data[k].income = c.min_income
             /\ data[k].credit_score = c.min_credit
             /\ data[k].employment_status = "Employed")
            => /\ branches[k] = "score"
               /\ data[k].eligibility =
                    (IF ClaimScoreTimes(data[k]) > 2000 * c.min_income
                     THEN "Eligible" ELSE "Not Eligible")

\* the boundary row of the Home Loan has been labelled by the scoring branch
C11_Witness ==
    \E k \in DOMAIN data :
        /\ data[k].loan_type = "Home Loan" /\ data[k].employment_status = "Employed"
        /\ data[k].income = 50000 /\ data[k].credit_score = 640
        /\ branches[k] = "score"

\* C12: generate_loan_data is deterministic: a call with the same num_samples as
\* the call before it returns the identical corpus, whatever state the
\* process-wide generator was in when the call was entered.
C12_Deterministic ==
    (previous # <<>> /\ Len(previous) = Len(data)) => data = previous

\* two calls of the same size, the second entered with a generator that other
\* draws had moved away from both the seeded state and the state the first left
C12_Witness ==
    /\ previous # <<>>
    /\ Len(previous) = Len(data)
    /\ entered # seeded
    /\ entered # After(seeded, Len(previous))


\* C13: no predict call and no save_model call changes the categorical encoders,
\* the scaler, the classifier or the target encoder of the instance, and predict
\* leaves the records it was passed as they were.
C13_FitStateReadOnly ==
    [][((op = "none" /\ op' = "predict")
            \/ (artifact' # artifact /\ artifact'.writer = "save_model"))
       => /\ model' = model
          /\ scaler' = scaler
          /\ label_encoders' = label_encoders
          /\ target_encoder' = target_encoder
          /\ (op' = "predict" => caller_df' = df')]_vars

\* a trained instance that was saved and then predicted on records holding a
\* category its encoders know and a fit different from theirs
C13_Witness ==
    /\ model.fitted
    /\ op = "predict" /\ Returned
    /\ caller_df = df
    /\ label_encoders # FitEncoders(df)
    /\ artifact.exists
    /\ artifact.model = model /\ artifact.scaler = scaler
    /\ artifact.label_encoders = label_encoders
    /\ artifact.target_encoder = target_encoder

\* C14: whenever the instance can be used for predict or save_model, its
\* classifier and its scaler (refitted together with the categorical encoders)
\* come from the same training run, also after a train call that raised part-way.
C14_SameRun ==
    (model.fitted /\ scaler.fitted /\ op \in {"none", "predict"})
        => model.run = scaler.run

\* C15: an instance load_model built from a bundle save_model wrote holds the four
\* pieces of the saved instance, and predict on it returns the labels and the
\* probabilities the saved instance returns for the same records.
C15_RoundTrip ==
    (source.exists /\ source.writer = "save_model")
        => /\ model = source.model
           /\ scaler = source.scaler
           /\ label_encoders = source.label_encoders
           /\ target_encoder = source.target_encoder
           /\ op = "predict"
                => result = Outcome(source.model, source.scaler, source.label_encoders,
                                    source.target_encoder, df).result

\* trained, saved, trained again, then loaded: the instance is back to the first
\* run's pieces and has returned a prediction with its probabilities
C15_Witness ==
    /\ source.exists /\ source.writer = "save_model"
    /\ source.model.fitted
    /\ runs = 2 /\ model.run = 1 /\ scaler.run = 1
    /\ op = "predict" /\ Returned
    /\ Len(df) = 3
    /\ DOMAIN result.proba = DOMAIN df

\* C16: preprocess_data(rows, training=False) on an instance whose encoders and
\* scaler are the fit on these rows returns the derived features the fitting
\* call preprocess_data(rows, training=True) returned: the same category
\* indices and the same scaled values.
C16_RefitIdempotent ==
    (/\ op = "preprocess_data"
     /\ result.status = "processed"
     /\ ~result.training
     /\ label_encoders = FitEncoders(df)
     /\ scaler = StandardScalerFit(df, scaler.run))
        => X = Processed(<<>>, UnfittedScaler, df, TRUE, scaler.run)

\* the three-row corpus transformed by the fit it was fitted on
C16_Witness ==
    /\ op = "preprocess_data"
    /\ result.status = "processed"
    /\ ~result.training
    /\ Len(df) = 3
    /\ label_encoders = FitEncoders(df)
    /\ scaler = StandardScalerFit(df, scaler.run)
    /\ \E j, k \in DOMAIN X : X[j].loan_type # X[k].loan_type

\* some record of the frame holds a category the fitted encoders have not seen
HasUnseenCategory(encoders, frame) ==
    /\ \A column \in Range(CategoricalColumns) : column \in DOMAIN encoders
    /\ \E column \in Range(CategoricalColumns) : \E k \in DOMAIN frame :
           LabelEncoderTransform(encoders[column], Column(frame, column)[k]) = Unseen

SingleClass(corpus) == Cardinality({corpus[k].eligibility : k \in DOMAIN corpus}) = 1

\* C18: train on a corpus whose labels all belong to a single class (a one-row
\* corpus included) fails with InsufficientTrainingDataError and fits no classifier.
C18_InsufficientDataFails ==
    (op = "train" /\ SingleClass(df))
        => /\ result.status = "InsufficientTrainingDataError"
           /\ model.run # runs

\* every piece of the instance is fitted
FullyInitialised ==
    /\ model.fitted /\ scaler.fitted /\ target_encoder.fitted
    /\ \A column \in Range(CategoricalColumns) : column \in DOMAIN label_encoders

\* C19: load_model on a file that is unreadable, lacks one of the four pieces or
\* was not written by save_model fails with ArtifactLoadError, and whatever
\* load_model returns from such a file is fully initialised.
C19_ForeignBundleRejected ==
    (op = "load_model" /\ artifact.exists /\ artifact.writer # "save_model")
        => /\ result.status = "ArtifactLoadError"
           /\ result.status = "loaded" => FullyInitialised

\* C20: in the training entry point the artifact is written only after generation
\* and train both completed: a run in which either failed has not written it,
\* and once the script is past save_model the artifact exists, holds the pieces
\* of the run's training and is loadable.
C20_ArtifactOnlyAfterSuccess ==
    /\ artifact.exists
         => /\ stage \in {"saved", "done"}
            /\ data # <<>>
            /\ artifact.model.fitted /\ artifact.model.run = runs
            /\ artifact.scaler.fitted /\ artifact.scaler.run = runs
    /\ stage = "failed" => ~artifact.exists
    /\ stage \in {"saved", "done"}
         => /\ artifact.exists
            /\ LoadStatus(artifact) = "loaded"

\* a run whose training raised after the scaler was refitted: no artifact
C20_Witness ==
    /\ stage = "failed"
    /\ data # <<>>
    /\ scaler.fitted /\ ~model.fitted
    /\ result.status = "ValueError"
    /\ ~artifact.exists

\* C21: with no file at the artifact's path, load_model raises FileNotFoundError
\* and leaves no fitted model behind, and neither entry point builds the form
\* or shows a result
C21_MissingArtifactFailsFast ==
    ~artifact.exists =>
        /\ LoadStatus(artifact) = "FileNotFoundError"
        /\ gui.load \in {"none", "FileNotFoundError"}
        /\ ~model.fitted
        /\ gui.window \in {"none", "destroyed"}
        /\ ~gui.pressed
        /\ ~gui.display.shown

C21_Witness ==
    /\ ~artifact.exists
    /\ gui.entry = "app"
    /\ gui.load = "FileNotFoundError"
    /\ gui.window = "destroyed"
    /\ gui.box.kind = "error"

\* C22: whatever the interleaving of the callers' predict calls on one loaded
\* instance, each caller is returned the labels and probabilities the call
\* gives alone, and the classifier, the encoders and the scaler stay as loaded
C22_SharedInstanceReadOnly ==
    /\ model = source.model
    /\ scaler = source.scaler
    /\ label_encoders = source.label_encoders
    /\ target_encoder = source.target_encoder
    /\ \A c \in 1..MaxCallers :
        callers.at[c] = "done" =>
            callers.returned[c] =
                Outcome(source.model, source.scaler, source.label_encoders,
                        source.target_encoder, callers.df[c]).result

C22_Witness ==
    \E c, d \in 1..MaxCallers :
        /\ callers.at[c] = "done"
        /\ callers.returned[c].status = "ok"
        /\ callers.at[d] \in {"model.predict", "_apply_custom_rules",
                              "inverse_transform"}
        /\ callers.df[c] # callers.df[d]
        /\ callers.returned[c] #
               Outcome(source.model, source.scaler, source.label_encoders,
                       source.target_encoder, callers.df[d]).result

\* C23: in train, preprocess_data and predict alike, the income_to_loan_ratio a
\* row carries into the scaler is the row's income as the caller gave it over
\* the typical amount of the loan type as the caller named it (250000, 50000,
\* 35000: 7, 35 and 50 units of 1/1750000 per unit of income)
C23_UnitsPerIncome ==
    ("Home Loan" :> 7) @@ ("Education Loan" :> 35) @@ ("Car Loan" :> 50)

C23_RatioFromOriginalColumns ==
    (X # <<>> /\ scaler.fitted) =>
        \A k \in DOMAIN X :
            df[k].loan_type \in DOMAIN C23_UnitsPerIncome =>
                X[k].income_to_loan_ratio.num + scaler.sum["income_to_loan_ratio"]
                    = scaler.n_samples_seen_
                        * (df[k].income * C23_UnitsPerIncome[df[k].loan_type])

C23_Witness ==
    /\ op = "predict"
    /\ result.status = "ok"
    /\ \E k \in DOMAIN X :
        /\ df[k].loan_type = "Home Loan"
        /\ X[k].loan_type # 0
        /\ X[k].income.num # scaler.n_samples_seen_ * df[k].income

\* C24 as claimed: every generated row has income in [20000, 500000], a
\* credit_score in 300..850 that is the clamped draw rounded to the nearest
\* integer, and employment_status, loan_type and eligibility among their values
C24_RoundedCreditScore ==
    \A k \in DOMAIN data :
        /\ data[k].income >= 20000 /\ data[k].income <= 500000
        /\ data[k].credit_score \in 300..850
        /\ data[k].credit_score
              = (np_clip(draws[k].credit_score, 3000, 8500) + 5) \div 10
        /\ data[k].employment_status \in EmploymentStatuses
        /\ data[k].loan_type \in GeneratedLoanTypes
        /\ data[k].eligibility \in Range(TargetLabels)

\* C24: every generated row has income in [20000, 500000] (the draw, clamped),
\* a credit_score in 300..850 that is the clamped draw with its fraction
\* dropped, and employment_status, loan_type and eligibility among their values
C24_GeneratedRowRanges ==
    \A k \in DOMAIN data :
        /\ data[k].income >= 20000 /\ data[k].income <= 500000
        /\ draws[k].income \in 20000..500000 => data[k].income = draws[k].income
        /\ data[k].credit_score \in 300..850
        /\ draws[k].credit_score \in 3000..8500 =>
              /\ 10 * data[k].credit_score <= draws[k].credit_score
              /\ draws[k].credit_score < 10 * data[k].credit_score + 10
        /\ data[k].employment_status \in EmploymentStatuses
        /\ data[k].loan_type \in GeneratedLoanTypes
        /\ data[k].eligibility \in Range(TargetLabels)

C24_Witness ==
    \E k, j \in DOMAIN data :
        /\ draws[k].income < 20000 /\ data[k].income = 20000
        /\ draws[j].credit_score > 8500 /\ data[j].credit_score = 850
        /\ \E i \in DOMAIN data :
            /\ draws[i].credit_score \in 3000..8500
            /\ draws[i].credit_score % 10 > 5

\* C25: the eligibility and the confidence on display are those the handler
\* computes from the form with any other loadable artifact's classifier in
\* self.model: the loaded classifier has no part in the decision
C25_DisplayIndependentOfModel ==
    gui.display.fresh =>
        \A bundle \in GuiArtifacts :
            LoadStatus(bundle) = "loaded" =>
                Pressed(bundle.model, gui, gui.form).display = gui.display

C25_Witness ==
    /\ gui.display.fresh
    /\ gui.display.eligible
    /\ model.fitted
    /\ ~EligibilityByClassifier(model, gui.form)
    /\ \E bundle \in TrainedBundles :
        EligibilityByClassifier(bundle.model, gui.form)

\* C26: when the handler has run on a form, a result is on display only if
\* income > 0, 300 <= credit_score <= 850, loan amount > 0 and any co-applicant
\* income >= 0; on every other form a warning is shown and no result is displayed
C26_InRange ==
    /\ Geq(gui.form.income, 0) /\ ~LeqZero(gui.form.income)
    /\ gui.form.coapplicant_income.kind = "empty" \/ Geq(gui.form.coapplicant_income, 0)
    /\ gui.form.credit.kind = "num" /\ gui.form.credit.v \in 300..850
    /\ Geq(gui.form.loan_amount, 0) /\ ~LeqZero(gui.form.loan_amount)

C26_RangeValidatedBeforeDeciding ==
    gui.pressed =>
        /\ gui.display.fresh => C26_InRange
        /\ ~C26_InRange => (gui.box.kind = "warning" /\ ~gui.display.shown)

\* C30: on a form _validate_inputs accepts, the applicant is reported eligible
\* exactly when income, credit score and amount meet the requirements of the
\* loan type and the debt-to-income ratio is below 45, and a confidence on
\* display is an integer from 5 to 95
C30_Requirements ==
    LET f == gui.form
        req == loan_requirements[f.loan_type]
    IN  /\ Geq(f.income, req.minimum_income)
        /\ f.credit.v >= req.minimum_credit_score
        /\ Leq(f.loan_amount, req.maximum_loan_amount)
        /\ \/ f.income.kind = "inf" /\ f.loan_amount.kind = "num"
           \/ /\ f.income.kind = "num" /\ f.loan_amount.kind = "num"
              /\ EmiFactor[f.loan_term] * f.loan_amount.v < 45000 * f.income.v

C30_ThresholdDecision ==
    (gui.pressed /\ validate_inputs(gui.form) = "ok") =>
        /\ (gui.display.fresh /\ gui.display.eligible) <=> C30_Requirements
        /\ gui.display.fresh => gui.display.confidence \in 5..95

\* C27: on the rows the generator yields, an override never contradicts the
\* label of determine_eligibility: where the strict rejection applies the label
\* is Not Eligible, where the exceptional approval applies it is Eligible
C27_OverridesAgreeWithPolicy ==
    \A k \in DOMAIN data :
        /\ StrictRejection(data[k]) => data[k].eligibility = "Not Eligible"
        /\ Exceptional(data[k]) => data[k].eligibility = "Eligible"

C27_Witness ==
    \E k, j \in DOMAIN data :
        /\ Exceptional(data[k])
        /\ data[k].credit_score = 801
        /\ data[k].income = 150001
        /\ data[k].eligibility = "Eligible"
        /\ ~Exceptional(data[j])
        /\ data[j].eligibility = "Not Eligible"

\* C28: the probabilities predict returns are the classifier's for the
\* processed rows, and where a rule changed the classifier's prediction the
\* returned label is not the class the returned probabilities favour
C28_ProbabilitiesNotAdjusted ==
    Returned =>
        \A k \in DOMAIN df :
            /\ result.proba[k] = predict_proba(model, X[k])
            /\ predictions[k] # passed[k] =>
                  \E c \in DOMAIN result.proba[k] :
                      /\ \A d \in DOMAIN result.proba[k] :
                            result.proba[k][c] >= result.proba[k][d]
                      /\ LabelEncoderInverse(target_encoder, c) # result.labels[k]

C28_Witness ==
    /\ Returned
    /\ \E k \in DOMAIN df :
        /\ predictions[k] # passed[k]
        /\ result.proba[k][passed[k]] = 80
        /\ result.labels[k] = "Eligible"

\* C29: predict on an instance that was never trained raises and returns no
\* labels, and whenever predict returns, the two column encoders, the scaler,
\* the target encoder and the classifier of the instance are fitted
C29_OnlyFittedInstancesPredict ==
    op = "predict" =>
        /\ (runs = 0 /\ source = NoFile) =>
              (result.status = "KeyError" /\ "labels" \notin DOMAIN result)
        /\ Returned =>
              /\ model.fitted
              /\ scaler.fitted
              /\ target_encoder.fitted
              /\ \A column \in Range(CategoricalColumns) :
                    /\ column \in DOMAIN label_encoders
                    /\ label_encoders[column].fitted

C29_Witness ==
    /\ op = "predict"
    /\ runs = 0
    /\ model = UnfittedModel
    /\ label_encoders = <<>>
    /\ df # <<>>
    /\ result.status = "KeyError"

==============================================================================
